---- MODULE Spec2Model ----
(***************************************************************************)
(* A model of code2llm.py: the path inclusion / exclusion engine           *)
(* (find_git_root, parse_gitignore, gitignore_matches, Excluder,           *)
(* collect_files), the binary pre-pass of main and format_output.          *)
(*                                                                         *)
(* Strings are sequences of one-character strings, so that prefix,         *)
(* substring, glob and ordering tests are computed character by character  *)
(* as Python computes them.                                                *)
(***************************************************************************)
EXTENDS Integers, Sequences, FiniteSets, TLC

\* ------------------------------------------------------------------------
\* Bounds of the model
\* ------------------------------------------------------------------------
MaxInputs == 2
MaxRules == 2

\* ------------------------------------------------------------------------
\* Strings
\* ------------------------------------------------------------------------

\* ord(c) for the characters the model uses
Ord(c) ==
    CASE c = " " -> 32 [] c = "!" -> 33 [] c = "#" -> 35 [] c = "*" -> 42
      [] c = "." -> 46 [] c = "/" -> 47 [] c = "?" -> 63
      [] c = "a" -> 97 [] c = "b" -> 98 [] c = "c" -> 99 [] c = "e" -> 101
      [] c = "g" -> 103 [] c = "h" -> 104 [] c = "i" -> 105 [] c = "l" -> 108
      [] c = "n" -> 110 [] c = "o" -> 111 [] c = "r" -> 114 [] c = "s" -> 115
      [] c = "t" -> 116

\* Python's str < str: the first differing character decides, a proper
\* prefix is smaller
RECURSIVE StrLess(_, _)
StrLess(a, b) ==
    IF b = <<>> THEN FALSE
    ELSE IF a = <<>> THEN TRUE
    ELSE IF Head(a) = Head(b) THEN StrLess(Tail(a), Tail(b))
    ELSE Ord(Head(a)) < Ord(Head(b))

\* s.startswith(p)
StartsWith(s, p) == Len(p) <= Len(s) /\ SubSeq(s, 1, Len(p)) = p

\* s.endswith(p)
EndsWith(s, p) == Len(p) <= Len(s) /\ SubSeq(s, Len(s) - Len(p) + 1, Len(s)) = p

\* sub in s
Contains(s, sub) ==
    \E i \in 1..(Len(s) - Len(sub) + 1) : SubSeq(s, i, i + Len(sub) - 1) = sub

\* s.strip() for the whitespace the model uses
RECURSIVE LStrip(_)
LStrip(s) == IF s /= <<>> /\ Head(s) = " " THEN LStrip(Tail(s)) ELSE s
RECURSIVE RStrip(_)
RStrip(s) ==
    IF s /= <<>> /\ s[Len(s)] = " " THEN RStrip(SubSeq(s, 1, Len(s) - 1)) ELSE s
Strip(s) == RStrip(LStrip(s))

\* s.split("/")
RECURSIVE SplitSlash(_)
SplitSlash(s) ==
    IF \A i \in 1..Len(s) : s[i] /= "/" THEN <<s>>
    ELSE LET k == CHOOSE i \in 1..Len(s) :
                     s[i] = "/" /\ \A j \in 1..(i - 1) : s[j] /= "/"
         IN <<SubSeq(s, 1, k - 1)>> \o SplitSlash(SubSeq(s, k + 1, Len(s)))

\* "/".join(segs)
RECURSIVE JoinSlash(_)
JoinSlash(segs) ==
    IF segs = <<>> THEN <<>>
    ELSE IF Len(segs) = 1 THEN segs[1]
    ELSE segs[1] \o <<"/">> \o JoinSlash(Tail(segs))

\* ------------------------------------------------------------------------
\* os.path and pathlib on POSIX
\* ------------------------------------------------------------------------
Root == <<"/">>
Dot == <<".">>
DotDot == <<".", ".">>
DotGit == <<".", "g", "i", "t">>
DotGitignore == <<".", "g", "i", "t", "i", "g", "n", "o", "r", "e">>

isabs(p) == p /= <<>> /\ Head(p) = "/"

\* the segment stack of os.path.normpath: "" and "." are dropped, ".." pops
\* (at the root of an absolute path it is dropped, in a relative one kept)
RECURSIVE NormSegs(_, _, _)
NormSegs(segs, acc, abs) ==
    IF segs = <<>> THEN acc
    ELSE LET c == Head(segs) IN
         IF c = <<>> \/ c = Dot THEN NormSegs(Tail(segs), acc, abs)
         ELSE IF c = DotDot
              THEN IF acc /= <<>> /\ acc[Len(acc)] /= DotDot
                   THEN NormSegs(Tail(segs), SubSeq(acc, 1, Len(acc) - 1), abs)
                   ELSE IF abs THEN NormSegs(Tail(segs), acc, abs)
                   ELSE NormSegs(Tail(segs), Append(acc, c), abs)
         ELSE NormSegs(Tail(segs), Append(acc, c), abs)

\* os.path.normpath (paths with one leading slash or none)
normpath(p) ==
    LET abs == isabs(p)
        segs == NormSegs(SplitSlash(p), <<>>, abs)
    IN IF abs THEN <<"/">> \o JoinSlash(segs)
       ELSE IF segs = <<>> THEN Dot ELSE JoinSlash(segs)

\* os.path.basename
basename(p) == LET segs == SplitSlash(p) IN segs[Len(segs)]

\* Path.parent of a normalized absolute path
Parent(p) ==
    LET segs == SplitSlash(p) IN
    IF p = Root THEN Root
    ELSE IF Len(segs) <= 2 THEN Root
    ELSE JoinSlash(SubSeq(segs, 1, Len(segs) - 1))

\* Path / name
JoinPath(d, name) ==
    IF isabs(name) THEN name
    ELSE IF d = Root THEN Root \o name
    ELSE d \o <<"/">> \o name

\* p == q or p lies under q
IsUnder(p, q) == p = q \/ StartsWith(p, IF q = Root THEN q ELSE q \o <<"/">>)

\* [p] + list(p.parents)
RECURSIVE SelfAndParents(_)
SelfAndParents(p) ==
    IF p = Root THEN <<Root>> ELSE <<p>> \o SelfAndParents(Parent(p))

\* Path.relative_to(base).as_posix() for p at or under base
relative_to(p, base) ==
    IF p = base THEN Dot
    ELSE IF base = Root THEN Tail(p)
    ELSE SubSeq(p, Len(base) + 2, Len(p))

\* os.path.relpath(p, start) of normalized absolute paths
RECURSIVE CommonLen(_, _)
CommonLen(a, b) ==
    IF a = <<>> \/ b = <<>> \/ Head(a) /= Head(b) THEN 0
    ELSE 1 + CommonLen(Tail(a), Tail(b))
relpath(p, start) ==
    LET ps == NormSegs(SplitSlash(p), <<>>, TRUE)
        ss == NormSegs(SplitSlash(start), <<>>, TRUE)
        k == CommonLen(ps, ss)
        ups == [i \in 1..(Len(ss) - k) |-> DotDot]
        rest == ups \o SubSeq(ps, k + 1, Len(ps))
    IN IF rest = <<>> THEN Dot ELSE JoinSlash(rest)

\* ------------------------------------------------------------------------
\* State
\* ------------------------------------------------------------------------
VARIABLES
    gitRoot,         \* the directory holding a .git directory, or NoPath
    gitignore,       \* gitRoot/.gitignore: whether it exists, and its lines
    unopenable,      \* files whose open() fails
    binary,          \* files with a null byte in their first 4 KiB
    args,            \* the parsed command line
    pc,              \* the position of main
    excluder,        \* the Excluder main constructed
    all_files,       \* the list collect_files returned
    filtered_files,  \* all_files after main's binary pre-pass
    output           \* the parts format_output joined

vars == <<gitRoot, gitignore, unopenable, binary, args, pc, excluder,
          all_files, filtered_files, output>>

NoPath == <<>>
NoFile == [exists |-> FALSE, lines |-> <<>>]

\* ------------------------------------------------------------------------
\* The file tree
\* ------------------------------------------------------------------------
DirR == <<"/", "r">>
DirS == <<"/", "r", "/", "s">>
DirT == <<"/", "r", "/", "s", "/", "t">>
FileA == <<"/", "r", "/", "a">>
FileSL == <<"/", "r", "/", "s", ".", "l">>
FileB == <<"/", "r", "/", "s", "/", "b">>
FileC == <<"/", "r", "/", "s", "/", "t", "/", "c">>

GitDirOf(g) == JoinPath(g, DotGit)
GitHeadOf(g) == JoinPath(GitDirOf(g), <<"h">>)
GitignoreOf(g) == JoinPath(g, DotGitignore)

TreeDirs(g) == {Root, DirR, DirS, DirT} \cup (IF g = NoPath THEN {} ELSE {GitDirOf(g)})
TreeFiles(g, ign) ==
    {FileA, FileSL, FileB, FileC}
        \cup (IF g = NoPath THEN {} ELSE {GitHeadOf(g)})
        \cup (IF g /= NoPath /\ ign.exists THEN {GitignoreOf(g)} ELSE {})

Dirs == TreeDirs(gitRoot)
Files == TreeFiles(gitRoot, gitignore)

is_dir(p) == p \in Dirs
is_file(p) == p \in Files

\* the directories and the files os.walk lists in one directory
ChildDirs(d) == {x \in Dirs : x /= Root /\ Parent(x) = d}
ChildFiles(d) == {x \in Files : Parent(x) = d}

Cwd == DirR

\* os.path.abspath / Path.resolve (the tree holds no symbolic links)
abspath(p) == normpath(JoinPath(Cwd, p))

\* ------------------------------------------------------------------------
\* Git and ignore logic
\* ------------------------------------------------------------------------
RECURSIVE FirstGitParent(_)
FirstGitParent(ps) ==
    IF ps = <<>> THEN NoPath
    ELSE IF is_dir(JoinPath(Head(ps), DotGit)) THEN Head(ps)
    ELSE FirstGitParent(Tail(ps))

find_git_root(path) ==
    LET abs == abspath(path)
        current == IF is_file(abs) THEN Parent(abs) ELSE abs
    IN FirstGitParent(SelfAndParents(current))

RECURSIVE ParseLines(_)
ParseLines(lines) ==
    IF lines = <<>> THEN <<>>
    ELSE LET line == Strip(Head(lines)) IN
         IF line = <<>> \/ Head(line) = "#" THEN ParseLines(Tail(lines))
         ELSE <<line>> \o ParseLines(Tail(lines))

parse_gitignore(gitignore_path) ==
    IF ~is_file(gitignore_path) THEN <<>> ELSE ParseLines(gitignore.lines)

\* fnmatch.fnmatch for patterns of literal characters, * and ?
RECURSIVE fnmatch(_, _)
fnmatch(name, pat) ==
    IF pat = <<>> THEN name = <<>>
    ELSE IF Head(pat) = "*"
         THEN fnmatch(name, Tail(pat)) \/ (name /= <<>> /\ fnmatch(Tail(name), pat))
    ELSE IF name = <<>> THEN FALSE
    ELSE (Head(pat) = "?" \/ Head(pat) = Head(name)) /\ fnmatch(Tail(name), Tail(pat))

PatternMatches(rel_path, pattern) ==
    /\ Head(pattern) /= "!"
    /\ \/ pattern[Len(pattern)] = "/" /\ StartsWith(rel_path \o <<"/">>, pattern)
       \/ fnmatch(rel_path, pattern)
       \/ fnmatch(basename(rel_path), pattern)

gitignore_matches(rel_path, patterns) ==
    \E i \in 1..Len(patterns) : PatternMatches(rel_path, patterns[i])

\* ------------------------------------------------------------------------
\* Exclusion system
\* ------------------------------------------------------------------------

\* A regular expression is modelled by the class the rules of the model are
\* drawn from: a literal text, optionally anchored at the end ("\.l$").
\*   valid  - re.compile accepts it
\*   fails  - Pattern.search raises re.error (the case the handlers of
\*            is_excluded and is_forced_excluded provide for)
Rx(lit, atEnd, valid, fails) ==
    [lit |-> lit, atEnd |-> atEnd, valid |-> valid, fails |-> fails]

\* rx.search(norm) of a compiled pattern, when it does not raise
rx_search(rx, norm) ==
    IF rx.atEnd THEN EndsWith(norm, rx.lit) ELSE Contains(norm, rx.lit)

\* the absolute prefixes one exact path resolves to
ResolveExact(p, base_paths) ==
    IF isabs(p) THEN {normpath(p)}
    ELSE {normpath(JoinPath(base_paths[i], p)) : i \in 1..Len(base_paths)}

\* re.compile(r) raises re.error for some r
CompileFails(regexes) == \E i \in 1..Len(regexes) : ~regexes[i].valid

\* Excluder.__init__, when no re.compile raises
ExcluderInit(base_paths, exact_paths, regexes, substrings, forced_exclude, forced_regexes, forced_substrings) ==
    [base_paths |-> base_paths,
     regexes |-> regexes,
     substrings |-> substrings,
     forced_regexes |-> forced_regexes,
     forced_substrings |-> forced_substrings,
     forced_exclude |->
        UNION {ResolveExact(forced_exclude[i], base_paths) : i \in 1..Len(forced_exclude)},
     exact_prefixes |->
        UNION {ResolveExact(exact_paths[i], base_paths) : i \in 1..Len(exact_paths)}]

\* the loop over a regex list: "hit" at the first match, "error" when a
\* search raises before any match, else "none"
RECURSIVE RegexLoop(_, _)
RegexLoop(rxs, norm) ==
    IF rxs = <<>> THEN "none"
    ELSE IF Head(rxs).fails THEN "error"
    ELSE IF rx_search(Head(rxs), norm) THEN "hit"
    ELSE RegexLoop(Tail(rxs), norm)

PrefixHit(prefixes, norm) ==
    \E pref \in prefixes : norm = pref \/ StartsWith(norm, pref \o <<"/">>)

is_excluded(self, path, base_path) ==
    LET norm == normpath(path)
        rxres == RegexLoop(self.regexes, norm)
        rel == IF base_path /= NoPath THEN relpath(norm, base_path) ELSE norm
        base_name == basename(norm)
    IN IF PrefixHit(self.exact_prefixes, norm) THEN TRUE
       ELSE IF rxres = "hit" THEN TRUE
       ELSE IF rxres = "error" THEN FALSE
       ELSE \E i \in 1..Len(self.substrings) :
               \/ Contains(norm, self.substrings[i])
               \/ Contains(rel, self.substrings[i])
               \/ Contains(base_name, self.substrings[i])

is_forced_excluded(self, path) ==
    LET norm == normpath(path)
        rxres == RegexLoop(self.forced_regexes, norm)
    IN IF PrefixHit(self.forced_exclude, norm) THEN TRUE
       ELSE IF rxres = "hit" THEN TRUE
       ELSE IF rxres = "error" THEN FALSE
       ELSE \E i \in 1..Len(self.forced_substrings) :
               Contains(norm, self.forced_substrings[i])

\* ------------------------------------------------------------------------
\* File collection
\* ------------------------------------------------------------------------
SlashGitSlash == <<"/">> \o DotGit \o <<"/">>

\* the f-string of line 254
DirRelPath(rel_root, d) ==
    IF rel_root /= <<>> THEN rel_root \o <<"/">> \o basename(d) ELSE basename(d)

\* FilteredDirs without the assignment dirs[:] = filtered_dirs: os.walk
\* descends into every child directory
FilteredDirs_NothingPruned(root, base_path, patterns, self) == ChildDirs(root)

\* the child directories os.walk descends into (dirs[:] = filtered_dirs)
FilteredDirs(root, base_path, patterns, self) ==
    LET rel_root == relative_to(root, base_path) IN
    {d \in ChildDirs(root) :
        /\ ~gitignore_matches(DirRelPath(rel_root, d), patterns)
        /\ ~is_forced_excluded(self, d)
        /\ ~is_excluded(self, d, base_path)}

\* the files of one directory that are appended to all_files
KeptFiles(root, base_path, patterns) ==
    {f \in ChildFiles(root) :
        /\ ~gitignore_matches(relative_to(f, base_path), patterns)
        /\ ~Contains(f, SlashGitSlash)}

\* Walk with the exclusion rules applied to files as they are to directories
RECURSIVE Walk_RulesOnFiles(_, _, _, _)
Walk_RulesOnFiles(root, base_path, patterns, self) ==
    {f \in KeptFiles(root, base_path, patterns) :
        ~is_forced_excluded(self, f) /\ ~is_excluded(self, f, base_path)}
        \cup UNION {Walk_RulesOnFiles(d, base_path, patterns, self) :
                        d \in FilteredDirs(root, base_path, patterns, self)}

\* the files os.walk(root) contributes
RECURSIVE Walk(_, _, _, _)
Walk(root, base_path, patterns, self) ==
    KeptFiles(root, base_path, patterns)
        \cup UNION {Walk(d, base_path, patterns, self) :
                        d \in FilteredDirs(root, base_path, patterns, self)}

BaseOf(input_path) ==
    LET git_root == find_git_root(input_path) IN
    IF git_root /= NoPath THEN git_root
    ELSE IF is_file(input_path) THEN Parent(input_path) ELSE input_path

PatternsOf(input_path) ==
    IF find_git_root(input_path) /= NoPath
    THEN parse_gitignore(JoinPath(BaseOf(input_path), DotGitignore))
    ELSE <<>>

\* the (path, base) pairs one input path appends
CollectInput(input_path_str, self) ==
    LET input_path == abspath(input_path_str)
        base_path == BaseOf(input_path)
        patterns == PatternsOf(input_path)
    IN IF is_file(input_path)
       THEN IF ~gitignore_matches(relative_to(input_path, base_path), patterns)
            THEN {<<input_path, base_path>>} ELSE {}
       ELSE {<<f, base_path>> : f \in Walk(input_path, base_path, patterns, self)}

\* set(all_files) at line 285
CollectedSet(input_paths, self) ==
    UNION {CollectInput(input_paths[i], self) : i \in 1..Len(input_paths)}

\* the orders of a set of pairs
RECURSIVE Orders(_)
Orders(S) ==
    IF S = {} THEN {<<>>}
    ELSE UNION {{<<e>> \o rest : rest \in Orders(S \ {e})} : e \in S}

\* sorted(list(S), key=lambda x: x[0]): the sort is stable and keyed by the
\* path alone, so pairs with equal paths keep the iteration order of the
\* set, which the hash seed of the process decides
RECURSIVE SortedLists(_)
SortedLists(S) ==
    IF S = {} THEN {<<>>}
    ELSE LET m == CHOOSE e \in S : \A o \in S : ~StrLess(o[1], e[1])
             G == {e \in S : e[1] = m[1]}
         IN UNION {{g \o rest : rest \in SortedLists(S \ G)} : g \in Orders(G)}

\* the lists collect_files can return
collect_files(input_paths, self) == SortedLists(CollectedSet(input_paths, self))

\* ------------------------------------------------------------------------
\* PROJECT STRUCTURE formatting + file output
\* ------------------------------------------------------------------------
IsForced(self, entry) == is_forced_excluded(self, entry[1])
IsSoft(self, entry) == is_excluded(self, entry[1], entry[2])
RelOf(entry) == relative_to(entry[1], entry[2])

\* f"[x] {rel_path}" and f"[{file_index}] {rel_path}"
OmittedLine(rel_path) ==
    [kind |-> "line", omitted |-> TRUE, index |-> 0, path |-> rel_path]
IndexedLine(file_index, rel_path) ==
    [kind |-> "line", omitted |-> FALSE, index |-> file_index, path |-> rel_path]

\* StructureLines with file_index advanced by every listed file, the omitted
\* ones too
RECURSIVE StructureLines_CountsOmitted(_, _, _)
StructureLines_CountsOmitted(files, self, file_index) ==
    IF files = <<>> THEN <<>>
    ELSE LET e == Head(files) IN
         IF IsForced(self, e)
         THEN StructureLines_CountsOmitted(Tail(files), self, file_index)
         ELSE IF IsSoft(self, e)
              THEN <<OmittedLine(RelOf(e))>>
                       \o StructureLines_CountsOmitted(Tail(files), self, file_index + 1)
         ELSE <<IndexedLine(file_index, RelOf(e))>>
                  \o StructureLines_CountsOmitted(Tail(files), self, file_index + 1)

\* the loop of lines 303-314: structure_lines
RECURSIVE StructureLines(_, _, _)
StructureLines(files, self, file_index) ==
    IF files = <<>> THEN <<>>
    ELSE LET e == Head(files) IN
         IF IsForced(self, e) THEN StructureLines(Tail(files), self, file_index)
         ELSE IF IsSoft(self, e)
              THEN <<OmittedLine(RelOf(e))>>
                       \o StructureLines(Tail(files), self, file_index)
         ELSE <<IndexedLine(file_index, RelOf(e))>>
                  \o StructureLines(Tail(files), self, file_index + 1)

\* IncludedFiles without the test of is_forced_excluded
RECURSIVE IncludedFiles_ForcedKept(_, _)
IncludedFiles_ForcedKept(files, self) ==
    IF files = <<>> THEN <<>>
    ELSE LET e == Head(files) IN
         IF ~IsSoft(self, e)
         THEN <<e>> \o IncludedFiles_ForcedKept(Tail(files), self)
         ELSE IncludedFiles_ForcedKept(Tail(files), self)

\* included_files, as either loop (lines 303-314, lines 318-320) builds it
RECURSIVE IncludedFiles(_, _)
IncludedFiles(files, self) ==
    IF files = <<>> THEN <<>>
    ELSE LET e == Head(files) IN
         IF ~IsForced(self, e) /\ ~IsSoft(self, e)
         THEN <<e>> \o IncludedFiles(Tail(files), self)
         ELSE IncludedFiles(Tail(files), self)

\* the content of lines 340-344: the text read, or the error marker
ReadContent(fp, cannot_open) ==
    IF fp \in cannot_open THEN [unreadable |-> TRUE, of |-> NoPath]
    ELSE [unreadable |-> FALSE, of |-> fp]

\* f"### [{idx}] {rel}\n```\n{content}\n```\n" for enumerate(included_files, start=1)
ContentBlocks(included, cannot_open) ==
    [i \in 1..Len(included) |->
        [kind |-> "block", index |-> i, path |-> RelOf(included[i]),
         content |-> ReadContent(included[i][1], cannot_open)]]

\* the parts format_output joins (none of the files of the tree has an
\* extension of LANGUAGE_PROMPTS, so lang_section is empty)
format_output(files, self, include_system_prompt, include_structure, cannot_open) ==
    LET structure_lines ==
            IF include_structure THEN StructureLines(files, self, 1) ELSE <<>>
        included_files == IncludedFiles(files, self)
    IN (IF include_system_prompt THEN <<[kind |-> "prompt"]>> ELSE <<>>)
       \o (IF include_structure /\ structure_lines /= <<>>
           THEN <<[kind |-> "structure_header"]>> \o structure_lines ELSE <<>>)
       \o (IF included_files /= <<>>
           THEN <<[kind |-> "contents_header"]>>
                    \o ContentBlocks(included_files, cannot_open)
           ELSE <<>>)

\* ------------------------------------------------------------------------
\* main
\* ------------------------------------------------------------------------
Inputs(a) == IF a.input /= <<>> THEN a.input ELSE <<Dot>>

\* lines 386-392
RECURSIVE GitRoots(_, _)
GitRoots(inputs, base_paths) ==
    IF inputs = <<>> THEN base_paths
    ELSE LET gr == find_git_root(Head(inputs)) IN
         IF gr /= NoPath /\ \A i \in 1..Len(base_paths) : base_paths[i] /= gr
         THEN GitRoots(Tail(inputs), Append(base_paths, gr))
         ELSE GitRoots(Tail(inputs), base_paths)

BasePaths(a) ==
    LET found == GitRoots(Inputs(a), <<>>) IN
    IF found = <<>> THEN <<Cwd>> ELSE found

\* the pre-pass of lines 399-409
RECURSIVE FilterBinaryFiles(_, _, _)
FilterBinaryFiles(files, cannot_open, with_null) ==
    IF files = <<>> THEN <<>>
    ELSE IF Head(files)[1] \in cannot_open \/ Head(files)[1] \in with_null
         THEN FilterBinaryFiles(Tail(files), cannot_open, with_null)
    ELSE <<Head(files)>> \o FilterBinaryFiles(Tail(files), cannot_open, with_null)

NoExcluder == ExcluderInit(<<>>, <<>>, <<>>, <<>>, <<>>, <<>>, <<>>)

\* main, lines 382-395, when a re.compile of Excluder.__init__ raises
\* re.error: nothing catches it and the run ends with a traceback
ConstructAbort ==
    /\ pc = "start"
    /\ CompileFails(args.exclude_regex) \/ CompileFails(args.exclude_regex_force)
    /\ pc' = "aborted"
    /\ UNCHANGED <<gitRoot, gitignore, unopenable, binary, args, excluder,
                   all_files, filtered_files, output>>

\* main, lines 382-395
Construct ==
    /\ pc = "start"
    /\ ~CompileFails(args.exclude_regex)
    /\ ~CompileFails(args.exclude_regex_force)
    /\ excluder' = ExcluderInit(BasePaths(args), args.exclude, args.exclude_regex,
                                args.exclude_substr, args.exclude_force,
                                args.exclude_regex_force, args.exclude_substr_force)
    /\ pc' = "constructed"
    /\ UNCHANGED <<gitRoot, gitignore, unopenable, binary, args,
                   all_files, filtered_files, output>>

\* main, line 397
Collect ==
    /\ pc = "constructed"
    /\ all_files' \in collect_files(Inputs(args), excluder)
    /\ pc' = "collected"
    /\ UNCHANGED <<gitRoot, gitignore, unopenable, binary, args, excluder,
                   filtered_files, output>>

\* main, lines 399-409
FilterBinary ==
    /\ pc = "collected"
    /\ filtered_files' = FilterBinaryFiles(all_files, unopenable, binary)
    /\ pc' = "filtered"
    /\ UNCHANGED <<gitRoot, gitignore, unopenable, binary, args, excluder,
                   all_files, output>>

\* main, lines 411-416
Format ==
    /\ pc = "filtered"
    /\ output' = format_output(filtered_files, excluder, ~args.no_system_prompt,
                               ~args.no_structure, unopenable)
    /\ pc' = "done"
    /\ UNCHANGED <<gitRoot, gitignore, unopenable, binary, args, excluder,
                   all_files, filtered_files>>

Next == ConstructAbort \/ Construct \/ Collect \/ FilterBinary \/ Format

\* ------------------------------------------------------------------------
\* Initial states: a file tree and a command line
\* ------------------------------------------------------------------------
GitHeadS == GitHeadOf(DirS)

\* the values of -i
InputPool == {Dot, DirS, FileB, GitHeadS}

\* the contents of .gitignore
GitignorePool ==
    {<<<<"t">>, <<" ", "*", ".", "l", " ">>>>,
     <<<<"#", "s">>, <<>>, <<"!", "a">>, <<"s", "/">>>>}

\* the values of -e, -er, -ex, -ef, -erf, -exf
DotL == Rx(<<".", "l">>, TRUE, TRUE, FALSE)
Malformed == Rx(<<>>, FALSE, FALSE, FALSE)
RulePool ==
    {<<"exclude", <<"s">>>>,
     <<"exclude_regex", DotL>>,
     <<"exclude_regex", Malformed>>,
     <<"exclude_substr", <<"b">>>>,
     <<"exclude_force", <<"s", "/", "t">>>>,
     <<"exclude_regex_force", DotL>>,
     <<"exclude_substr_force", <<"c">>>>}

\* the sequences over S of length at most n
RECURSIVE SeqsUpTo(_, _)
SeqsUpTo(S, n) ==
    IF n = 0 THEN {<<>>}
    ELSE LET shorter == SeqsUpTo(S, n - 1) IN
         shorter \cup {Append(q, x) : q \in shorter, x \in S}

\* the values one option was given, in command-line order
RECURSIVE OptionValues(_, _)
OptionValues(rules, option) ==
    IF rules = <<>> THEN <<>>
    ELSE IF Head(rules)[1] = option
         THEN <<Head(rules)[2]>> \o OptionValues(Tail(rules), option)
    ELSE OptionValues(Tail(rules), option)

ParseArgs(input, rules, no_structure, no_system_prompt) ==
    [input |-> input,
     exclude |-> OptionValues(rules, "exclude"),
     exclude_regex |-> OptionValues(rules, "exclude_regex"),
     exclude_substr |-> OptionValues(rules, "exclude_substr"),
     exclude_force |-> OptionValues(rules, "exclude_force"),
     exclude_regex_force |-> OptionValues(rules, "exclude_regex_force"),
     exclude_substr_force |-> OptionValues(rules, "exclude_substr_force"),
     no_structure |-> no_structure,
     no_system_prompt |-> no_system_prompt]

\* the order of the -i options decides only the order in which collect_files
\* appends to the list it then turns into a set, so one order of each
\* selection is drawn
InputLists ==
    {q \in SeqsUpTo(InputPool, MaxInputs) :
        \A i \in 1..Len(q) : \A j \in (i + 1)..Len(q) : ~StrLess(q[j], q[i])}

\* the rules of a command line: no option is given the same value twice
RuleLists(rulePool) ==
    {q \in SeqsUpTo(rulePool, MaxRules) :
        \A i \in 1..Len(q) : \A j \in (i + 1)..Len(q) :
            q[i][1] /= q[j][1] \/ q[i][2] /= q[j][2]}

ArgsSpace(rulePool) ==
    {ParseArgs(input, rules, ns, FALSE) :
        input \in InputLists,
        rules \in RuleLists(rulePool),
        ns \in BOOLEAN}

InitWith(rulePool) ==
    /\ gitRoot \in {NoPath, DirR, DirS}
    /\ gitignore \in
         IF gitRoot = NoPath THEN {NoFile}
         ELSE {NoFile} \cup {[exists |-> TRUE, lines |-> l] : l \in GitignorePool}
    /\ \E f \in {FileB} :
          \E k \in {<<{}, {}>>, <<{f}, {}>>, <<{}, {f}>>} :
             unopenable = k[1] /\ binary = k[2]
    /\ args \in ArgsSpace(rulePool)
    /\ pc = "start"
    /\ excluder = NoExcluder
    /\ all_files = <<>>
    /\ filtered_files = <<>>
    /\ output = <<>>

Init == InitWith(RulePool)

Spec == Init /\ [][Next]_vars

\* ------------------------------------------------------------------------
\* Properties
\* ------------------------------------------------------------------------
\* collect_files has just returned all_files
Collected == pc = "collected"

\* C1: the list collect_files returns holds no two entries with the same
\* absolute path, and its entries are in ascending order of path.
C1_NoDuplicatePathSorted ==
    Collected =>
        /\ \A i \in 1..Len(all_files) : \A j \in (i + 1)..Len(all_files) :
              all_files[i][1] /= all_files[j][1]
        /\ \A i \in 1..(Len(all_files) - 1) :
              ~StrLess(all_files[i + 1][1], all_files[i][1])

\* the directories above a path
ProperAncestors(p) ==
    LET ps == SelfAndParents(Parent(p)) IN {ps[i] : i \in 1..Len(ps)}

\* the patterns collect_files loads for an input whose base is b
PatternsForBase(b) ==
    IF is_dir(GitDirOf(b)) THEN parse_gitignore(GitignoreOf(b)) ELSE <<>>

\* directory D is matched by the gitignore patterns of base b, by
\* is_forced_excluded or by is_excluded
DirMatched(D, b) ==
    \/ /\ D /= b
       /\ IsUnder(D, b)
       /\ gitignore_matches(relative_to(D, b), PatternsForBase(b))
    \/ is_forced_excluded(excluder, D)
    \/ is_excluded(excluder, D, b)

InputAt(k) == abspath(Inputs(args)[k])
InputIndices == 1..Len(Inputs(args))
EntrySet == {all_files[i] : i \in 1..Len(all_files)}

\* C2 as stated: no entry of the list lies under a matched directory, also
\* when that directory or a descendant of it is an input path.
C2_NoFileUnderMatchedDir ==
    Collected =>
        \A e \in EntrySet : \A D \in ProperAncestors(e[1]) : ~DirMatched(D, e[2])

\* C2, amended: an entry that lies under a directory matched by the gitignore
\* patterns of the entry's base, by is_forced_excluded or by is_excluded was
\* contributed by an input path that is that directory or lies under it; the
\* walk of an input above the directory contributes no file under it.
C2_FileUnderMatchedDirOnlyByInputBelow ==
    Collected =>
        \A e \in EntrySet : \A D \in ProperAncestors(e[1]) :
            DirMatched(D, e[2]) =>
                \E k \in InputIndices :
                    /\ IsUnder(InputAt(k), D)
                    /\ e \in CollectInput(Inputs(args)[k], excluder)

\* C2 witness: a matched directory strictly below an input directory holds a
\* file that no gitignore pattern matches, and the list has no entry for it.
C2_Witness ==
    /\ pc = "collected"
    /\ \E k \in InputIndices : \E D \in Dirs : \E f \in Files :
          /\ is_dir(InputAt(k)) /\ D /= InputAt(k) /\ IsUnder(D, InputAt(k))
          /\ DirMatched(D, BaseOf(InputAt(k)))
          /\ IsUnder(f, D)
          /\ ~gitignore_matches(relative_to(f, BaseOf(InputAt(k))),
                                PatternsOf(InputAt(k)))
          /\ \A e \in EntrySet : e[1] /= f
          /\ all_files /= <<>>

LinesOf(out) == SelectSeq(out, LAMBDA part : part.kind = "line")
BlocksOf(out) == SelectSeq(out, LAMBDA part : part.kind = "block")
NotForced(files) == SelectSeq(files, LAMBDA e : ~IsForced(excluder, e))
FullyIncluded(files) ==
    SelectSeq(files, LAMBDA e : ~IsForced(excluder, e) /\ ~IsSoft(excluder, e))

\* C3: a forced-excluded candidate has no structure line and no content
\* block, with the structure listing on or off and whether or not it is also
\* soft-excluded; the output is the one the other candidates alone produce.
C3_ForcedExcludedAbsent ==
    pc = "done" =>
        LET kept == NotForced(filtered_files)
            lines == LinesOf(output)
            blocks == BlocksOf(output)
        IN /\ Len(lines) = IF args.no_structure THEN 0 ELSE Len(kept)
           /\ \A i \in 1..Len(lines) : lines[i].path = RelOf(kept[i])
           /\ \A i \in 1..Len(blocks) :
                 \E j \in 1..Len(kept) :
                    /\ blocks[i].path = RelOf(kept[j])
                    /\ blocks[i].content.of \in {kept[j][1], NoPath}
           /\ Len(blocks) <= Len(kept)
           /\ output = format_output(kept, excluder, ~args.no_system_prompt,
                                     ~args.no_structure, unopenable)

\* C3 witness: the formatted list held a candidate that is forced-excluded
\* and soft-excluded at once, next to one that is not forced-excluded.
C3_Witness ==
    /\ pc = "done"
    /\ \E i, j \in 1..Len(filtered_files) :
          /\ IsForced(excluder, filtered_files[i])
          /\ IsSoft(excluder, filtered_files[i])
          /\ ~IsForced(excluder, filtered_files[j])

\* C4: with the structure listing on, every file reachable from an input
\* path that is soft-excluded, not forced-excluded and not gitignore-matched
\* has an "[x] <relative path>" line and no content block (the files of the
\* tree being readable text outside .git).
C4_SoftExcludedListed ==
    (pc = "done" /\ ~args.no_structure /\ unopenable = {} /\ binary = {}) =>
        \A k \in InputIndices : \A f \in Files :
            LET b == BaseOf(InputAt(k)) IN
            ( /\ IsUnder(f, InputAt(k))
              /\ is_excluded(excluder, f, b)
              /\ ~is_forced_excluded(excluder, f)
              /\ ~gitignore_matches(relative_to(f, b), PatternsOf(InputAt(k)))
              /\ ~Contains(f, SlashGitSlash) )
            => /\ OmittedLine(relative_to(f, b)) \in
                     {LinesOf(output)[i] : i \in 1..Len(LinesOf(output))}
               /\ \A i \in 1..Len(BlocksOf(output)) :
                     BlocksOf(output)[i].content.of /= f

\* C5: with the structure listing on, the lines are those of the candidates
\* that are not forced-excluded, in list order; a soft-excluded one carries
\* "[x]" and no number; the k-th fully included one carries k, so the
\* numbers are 1..n; and the k-th content block carries k and the path of
\* the line numbered k.
C5_IndicesContiguous ==
    (pc = "done" /\ ~args.no_structure) =>
        LET kept == NotForced(filtered_files)
            inc == FullyIncluded(filtered_files)
            lines == LinesOf(output)
            blocks == BlocksOf(output)
            numbered == SelectSeq(lines, LAMBDA l : ~l.omitted)
        IN /\ Len(lines) = Len(kept)
           /\ \A i \in 1..Len(lines) :
                 /\ lines[i].omitted = IsSoft(excluder, kept[i])
                 /\ lines[i].omitted => lines[i].index = 0
           /\ Len(numbered) = Len(inc)
           /\ \A k \in 1..Len(numbered) :
                 numbered[k] = IndexedLine(k, RelOf(inc[k]))
           /\ Len(blocks) = Len(inc)
           /\ \A k \in 1..Len(blocks) :
                 /\ blocks[k].index = k
                 /\ blocks[k].path = numbered[k].path
                 /\ blocks[k].content = ReadContent(inc[k][1], unopenable)

\* C5 witness: a soft-excluded candidate stands between two fully included
\* ones in the formatted list.
C5_Witness ==
    /\ pc = "done" /\ ~args.no_structure
    /\ \E i, j, k \in 1..Len(filtered_files) :
          /\ i < j /\ j < k
          /\ ~IsForced(excluder, filtered_files[i]) /\ ~IsSoft(excluder, filtered_files[i])
          /\ ~IsForced(excluder, filtered_files[j]) /\ IsSoft(excluder, filtered_files[j])
          /\ ~IsForced(excluder, filtered_files[k]) /\ ~IsSoft(excluder, filtered_files[k])

\* the output of a run whose collect_files returned the list l
OutputOf(l) ==
    format_output(FilterBinaryFiles(l, unopenable, binary), excluder,
                  ~args.no_system_prompt, ~args.no_structure, unopenable)

\* C6: every run on the same file tree with the same command line produces
\* the same output, whatever the iteration order of the set of pairs.
C6_Deterministic ==
    pc = "done" =>
        \A l \in collect_files(Inputs(args), excluder) : OutputOf(l) = output

\* the walk of an input with base b and the given patterns does not descend
\* into directory D
PrunedByWalk(D, b, patterns) ==
    \/ gitignore_matches(DirRelPath(relative_to(Parent(D), b), D), patterns)
    \/ is_forced_excluded(excluder, D)
    \/ is_excluded(excluder, D, b)

\* file f lies under input directory I, and the walk of I prunes no
\* directory between I and f
ReachedByWalk(f, I, b, patterns) ==
    /\ IsUnder(f, I)
    /\ \A D \in ProperAncestors(f) :
          (D /= I /\ IsUnder(D, I)) => ~PrunedByWalk(D, b, patterns)

\* C7 as stated: the list holds no forced-excluded file, and it holds every
\* soft-excluded file that is neither gitignore-matched nor under a pruned
\* directory.
C7_ForcedDroppedSoftRetained ==
    Collected =>
        /\ \A e \in EntrySet : ~IsForced(excluder, e)
        /\ \A k \in InputIndices : \A f \in Files :
              LET b == BaseOf(InputAt(k))
                  patterns == PatternsOf(InputAt(k))
              IN ( /\ is_dir(InputAt(k))
                   /\ ReachedByWalk(f, InputAt(k), b, patterns)
                   /\ is_excluded(excluder, f, b)
                   /\ ~gitignore_matches(relative_to(f, b), patterns)
                   /\ ~Contains(f, SlashGitSlash) )
                 => <<f, b>> \in EntrySet

\* C7, amended: collect_files tests the exclusion rules on directories only;
\* the list holds every file under an input directory that is neither
\* gitignore-matched, nor under a directory the walk pruned, nor inside
\* .git, whether is_forced_excluded or is_excluded is true for it or not.
C7_FilesRetainedWhateverTheirRules ==
    Collected =>
        \A k \in InputIndices :
            LET I == InputAt(k)
                b == BaseOf(I)
                patterns == PatternsOf(I)
                entries == EntrySet
            IN is_dir(I) =>
                  \A f \in Files :
                      ( /\ IsUnder(f, I)
                        /\ ~Contains(f, SlashGitSlash)
                        /\ ~gitignore_matches(relative_to(f, b), patterns)
                        /\ ReachedByWalk(f, I, b, patterns) )
                      => <<f, b>> \in entries

\* C7 witness: the list holds a file that is forced-excluded and a file that
\* is soft-excluded only.
C7_Witness ==
    /\ pc = "collected"
    /\ \E e1, e2 \in EntrySet :
          /\ IsForced(excluder, e1)
          /\ IsSoft(excluder, e2) /\ ~IsForced(excluder, e2)

HasMalformedRegex ==
    CompileFails(args.exclude_regex) \/ CompileFails(args.exclude_regex_force)

\* C8: a malformed regular expression among the soft or forced regex rules
\* never aborts the run: the Excluder is constructed and the run goes on.
C8_MalformedRegexNeverAborts == HasMalformedRegex => pc /= "aborted"

\* C9: with the structure listing on, a collected file that is fully
\* included and cannot be opened has a numbered structure line and a content
\* block holding the error marker, and the lines are those of the run in
\* which every file can be opened.
C9_UnreadableFileKeepsItsBlock ==
    (pc = "done" /\ ~args.no_structure) =>
        \A e \in EntrySet :
            (e[1] \in unopenable /\ ~IsForced(excluder, e) /\ ~IsSoft(excluder, e))
            => /\ \E i \in 1..Len(LinesOf(output)) :
                     /\ ~LinesOf(output)[i].omitted
                     /\ LinesOf(output)[i].path = RelOf(e)
               /\ \E i \in 1..Len(BlocksOf(output)) :
                     /\ BlocksOf(output)[i].path = RelOf(e)
                     /\ BlocksOf(output)[i].content.unreadable
               /\ LinesOf(output) =
                     LinesOf(format_output(FilterBinaryFiles(all_files, {}, binary),
                                           excluder, ~args.no_system_prompt,
                                           TRUE, {}))

\* the logical OR of the three soft tiers, a rule whose evaluation fails
\* matching nothing
SoftOr(self, path, base_path) ==
    LET norm == normpath(path) IN
    \/ PrefixHit(self.exact_prefixes, norm)
    \/ \E i \in 1..Len(self.regexes) :
          ~self.regexes[i].fails /\ rx_search(self.regexes[i], norm)
    \/ \E i \in 1..Len(self.substrings) :
          \/ Contains(norm, self.substrings[i])
          \/ Contains(relpath(norm, base_path), self.substrings[i])
          \/ Contains(basename(norm), self.substrings[i])

\* the logical OR of the three forced tiers
ForcedOr(self, path) ==
    LET norm == normpath(path) IN
    \/ PrefixHit(self.forced_exclude, norm)
    \/ \E i \in 1..Len(self.forced_regexes) :
          ~self.forced_regexes[i].fails /\ rx_search(self.forced_regexes[i], norm)
    \/ \E i \in 1..Len(self.forced_substrings) :
          Contains(norm, self.forced_substrings[i])

HasGitSegment(p) ==
    \E i \in 1..Len(SplitSlash(p)) : SplitSlash(p)[i] = DotGit

\* the entries of the list that are an input path naming a file
SingleFileEntries ==
    {e \in EntrySet : \E k \in InputIndices : is_file(InputAt(k)) /\ e[1] = InputAt(k)}

\* C11: no entry of the list collect_files returns has a path with a ".git"
\* segment, be the file found by the walk of a directory input or be it an
\* input path that is itself a file inside a .git directory.
C11_NoGitSegment ==
    Collected => \A e \in EntrySet : ~HasGitSegment(e[1])

\* C11, the part the walk provides: an entry that is not itself an input
\* path naming a file has no ".git" segment in its path.
C11_WalkedHaveNoGitSegment ==
    Collected => \A e \in EntrySet \ SingleFileEntries : ~HasGitSegment(e[1])

\* the rules of the runs in which the evaluation of a regex rule may fail
Failing == Rx(<<"a">>, FALSE, TRUE, TRUE)
RulePoolRx ==
    {<<"exclude", <<"s">>>>,
     <<"exclude_regex", DotL>>,
     <<"exclude_regex", Failing>>,
     <<"exclude_regex", Malformed>>,
     <<"exclude_substr", <<"b">>>>,
     <<"exclude_regex_force", DotL>>,
     <<"exclude_regex_force", Failing>>,
     <<"exclude_substr_force", <<"c">>>>}

InitRx == InitWith(RulePoolRx)

SpecRx == InitRx /\ [][Next]_vars

====
